---------------------------- MODULE Spec2Model ----------------------------
(***************************************************************************)
(* A model of fecpp: systematic Reed-Solomon forward error correction over *)
(* GF(2^8) (src/fecpp.cpp).  Field tables, the vector kernel, the matrix   *)
(* engine and the codec (construction, encode, decode) are modelled as the *)
(* code computes them.  C arrays are functions over 0..len-1.              *)
(***************************************************************************)
EXTENDS Integers, Sequences, FiniteSets, TLC

(***************************************************************************)
(* Field tables (static data of the source).  The tuples are 1-based, so   *)
(* the C expression GF_EXP[i] is GF_EXP[i + 1] here.                       *)
(***************************************************************************)
GF_EXP ==
  <<
   1, 2, 4, 8, 16, 32, 64, 128, 29, 58, 116, 232, 205, 135, 19, 38,
   76, 152, 45, 90, 180, 117, 234, 201, 143, 3, 6, 12, 24, 48, 96, 192,
   157, 39, 78, 156, 37, 74, 148, 53, 106, 212, 181, 119, 238, 193, 159, 35,
   70, 140, 5, 10, 20, 40, 80, 160, 93, 186, 105, 210, 185, 111, 222, 161,
   95, 190, 97, 194, 153, 47, 94, 188, 101, 202, 137, 15, 30, 60, 120, 240,
   253, 231, 211, 187, 107, 214, 177, 127, 254, 225, 223, 163, 91, 182, 113, 226,
   217, 175, 67, 134, 17, 34, 68, 136, 13, 26, 52, 104, 208, 189, 103, 206,
   129, 31, 62, 124, 248, 237, 199, 147, 59, 118, 236, 197, 151, 51, 102, 204,
   133, 23, 46, 92, 184, 109, 218, 169, 79, 158, 33, 66, 132, 21, 42, 84,
   168, 77, 154, 41, 82, 164, 85, 170, 73, 146, 57, 114, 228, 213, 183, 115,
   230, 209, 191, 99, 198, 145, 63, 126, 252, 229, 215, 179, 123, 246, 241, 255,
   227, 219, 171, 75, 150, 49, 98, 196, 149, 55, 110, 220, 165, 87, 174, 65,
   130, 25, 50, 100, 200, 141, 7, 14, 28, 56, 112, 224, 221, 167, 83, 166,
   81, 162, 89, 178, 121, 242, 249, 239, 195, 155, 43, 86, 172, 69, 138, 9,
   18, 36, 72, 144, 61, 122, 244, 245, 247, 243, 251, 235, 203, 139, 11, 22,
   44, 88, 176, 125, 250, 233, 207, 131, 27, 54, 108, 216, 173, 71, 142, 1,
   2, 4, 8, 16, 32, 64, 128, 29, 58, 116, 232, 205, 135, 19, 38, 76,
   152, 45, 90, 180, 117, 234, 201, 143, 3, 6, 12, 24, 48, 96, 192, 157,
   39, 78, 156, 37, 74, 148, 53, 106, 212, 181, 119, 238, 193, 159, 35, 70,
   140, 5, 10, 20, 40, 80, 160, 93, 186, 105, 210, 185, 111, 222, 161, 95,
   190, 97, 194, 153, 47, 94, 188, 101, 202, 137, 15, 30, 60, 120, 240, 253,
   231, 211, 187, 107, 214, 177, 127, 254, 225, 223, 163, 91, 182, 113, 226, 217,
   175, 67, 134, 17, 34, 68, 136, 13, 26, 52, 104, 208, 189, 103, 206, 129,
   31, 62, 124, 248, 237, 199, 147, 59, 118, 236, 197, 151, 51, 102, 204, 133,
   23, 46, 92, 184, 109, 218, 169, 79, 158, 33, 66, 132, 21, 42, 84, 168,
   77, 154, 41, 82, 164, 85, 170, 73, 146, 57, 114, 228, 213, 183, 115, 230,
   209, 191, 99, 198, 145, 63, 126, 252, 229, 215, 179, 123, 246, 241, 255, 227,
   219, 171, 75, 150, 49, 98, 196, 149, 55, 110, 220, 165, 87, 174, 65, 130,
   25, 50, 100, 200, 141, 7, 14, 28, 56, 112, 224, 221, 167, 83, 166, 81,
   162, 89, 178, 121, 242, 249, 239, 195, 155, 43, 86, 172, 69, 138, 9, 18,
   36, 72, 144, 61, 122, 244, 245, 247, 243, 251, 235, 203, 139, 11, 22, 44,
   88, 176, 125, 250, 233, 207, 131, 27, 54, 108, 216, 173, 71, 142
  >>

GF_LOG ==
  <<
   255, 0, 1, 25, 2, 50, 26, 198, 3, 223, 51, 238, 27, 104, 199, 75,
   4, 100, 224, 14, 52, 141, 239, 129, 28, 193, 105, 248, 200, 8, 76, 113,
   5, 138, 101, 47, 225, 36, 15, 33, 53, 147, 142, 218, 240, 18, 130, 69,
   29, 181, 194, 125, 106, 39, 249, 185, 201, 154, 9, 120, 77, 228, 114, 166,
   6, 191, 139, 98, 102, 221, 48, 253, 226, 152, 37, 179, 16, 145, 34, 136,
   54, 208, 148, 206, 143, 150, 219, 189, 241, 210, 19, 92, 131, 56, 70, 64,
   30, 66, 182, 163, 195, 72, 126, 110, 107, 58, 40, 84, 250, 133, 186, 61,
   202, 94, 155, 159, 10, 21, 121, 43, 78, 212, 229, 172, 115, 243, 167, 87,
   7, 112, 192, 247, 140, 128, 99, 13, 103, 74, 222, 237, 49, 197, 254, 24,
   227, 165, 153, 119, 38, 184, 180, 124, 17, 68, 146, 217, 35, 32, 137, 46,
   55, 63, 209, 91, 149, 188, 207, 205, 144, 135, 151, 178, 220, 252, 190, 97,
   242, 86, 211, 171, 20, 42, 93, 158, 132, 60, 57, 83, 71, 109, 65, 162,
   31, 45, 67, 216, 183, 123, 164, 118, 196, 23, 73, 236, 127, 12, 111, 246,
   108, 161, 59, 82, 41, 157, 85, 170, 251, 96, 134, 177, 187, 204, 62, 90,
   203, 89, 95, 176, 156, 169, 160, 81, 11, 245, 22, 235, 122, 117, 44, 215,
   79, 174, 213, 233, 230, 231, 173, 232, 116, 214, 244, 234, 168, 80, 88, 175
  >>

GF_INVERSE ==
  <<
   0, 1, 142, 244, 71, 167, 122, 186, 173, 157, 221, 152, 61, 170, 93, 150,
   216, 114, 192, 88, 224, 62, 76, 102, 144, 222, 85, 128, 160, 131, 75, 42,
   108, 237, 57, 81, 96, 86, 44, 138, 112, 208, 31, 74, 38, 139, 51, 110,
   72, 137, 111, 46, 164, 195, 64, 94, 80, 34, 207, 169, 171, 12, 21, 225,
   54, 95, 248, 213, 146, 78, 166, 4, 48, 136, 43, 30, 22, 103, 69, 147,
   56, 35, 104, 140, 129, 26, 37, 97, 19, 193, 203, 99, 151, 14, 55, 65,
   36, 87, 202, 91, 185, 196, 23, 77, 82, 141, 239, 179, 32, 236, 47, 50,
   40, 209, 17, 217, 233, 251, 218, 121, 219, 119, 6, 187, 132, 205, 254, 252,
   27, 84, 161, 29, 124, 204, 228, 176, 73, 49, 39, 45, 83, 105, 2, 245,
   24, 223, 68, 79, 155, 188, 15, 92, 11, 220, 189, 148, 172, 9, 199, 162,
   28, 130, 159, 198, 52, 194, 70, 5, 206, 59, 13, 60, 156, 8, 190, 183,
   135, 229, 238, 107, 235, 242, 191, 175, 197, 100, 7, 123, 149, 154, 174, 182,
   18, 89, 165, 53, 101, 184, 163, 158, 210, 247, 98, 90, 133, 125, 168, 58,
   41, 113, 200, 246, 249, 67, 215, 214, 16, 115, 118, 120, 153, 10, 25, 145,
   20, 63, 230, 240, 134, 177, 226, 241, 250, 116, 243, 180, 109, 33, 178, 106,
   227, 231, 181, 234, 3, 143, 211, 201, 66, 212, 232, 117, 127, 255, 126, 253
  >>

(***************************************************************************)
(* Program constants.                                                      *)
(***************************************************************************)
\* number of values of a byte: gf_mul_table is [0xFF + 1][0xFF + 1]
GF_SIZE == 256

\* order of the multiplicative group, the modulus of exponent arithmetic
GF_ORDER == 255

\* the unrolling factor of addmul
UNROLL == 16

\* the largest k and n the constructor accepts
MAX_N == 256

(***************************************************************************)
(* Bounds of the model.                                                    *)
(***************************************************************************)
\* codecs are constructed for k in 0..MaxK and n in 0..MaxN (plus the
\* boundary parameters of BoundaryParams)
MaxK == 3

MaxN == 4

\* shards have 1..MaxSz bytes
MaxSz == 2

\* source blocks are drawn from the patterns 0..MaxSeed
MaxSeed == 1

\* the matrix engine is exercised on matrices of dimension 1..MaxDim
MaxDim == 3

\* addmul is called on 0..MaxLen bytes: two passes of the unrolled loop
\* and a tail
MaxLen == 33

\* the table-initialisation race is modelled on the top-left
\* MulDim x MulDim corner of gf_mul_table
MulDim == 2

\* number of threads constructing codecs concurrently
NumThreads == 2

(***************************************************************************)
(* GF(2^8) arithmetic.                                                     *)
(***************************************************************************)
RECURSIVE Xor(_, _)
\* the C operator ^ on bytes
Xor(a, b) ==
  IF a = 0 THEN b
  ELSE IF b = 0 THEN a
  ELSE ((a + b) % 2) + 2 * Xor(a \div 2, b \div 2)

\* what the first loop of init_mul_table stores at [i][j]
mul_first_loop(i, j) == GF_EXP[((GF_LOG[i + 1] + GF_LOG[j + 1]) % GF_ORDER) + 1]

\* gf_mul_table[i][j] once init_mul_table has returned: the second loop
\* zeroes row 0 and column 0
init_mul_table(i, j) == IF i = 0 \/ j = 0 THEN 0 ELSE mul_first_loop(i, j)

\* the macro gf_mul(x,y), reading the initialised table
gf_mul(x, y) == init_mul_table(x, y)

(***************************************************************************)
(* Vector kernel.  addmul works on offsets into one array (its callers in  *)
(* invert_mat pass rows of one matrix); addmul_k on separate buffers.      *)
(***************************************************************************)
\* one pass of the unrolled body: dst[0..15] ^= mul_base[src[0..15]]
addmul_block(mem, dst, src, c) ==
  [x \in DOMAIN mem |->
     IF dst <= x /\ x < dst + UNROLL
       THEN Xor(mem[x], gf_mul(c, mem[src + (x - dst)]))
       ELSE mem[x]]

RECURSIVE addmul_unrolled(_, _, _, _, _)
\* for(; dst < lim; dst += 16, src += 16) { ... }
addmul_unrolled(mem, dst, src, c, lim) ==
  IF dst < lim
    THEN addmul_unrolled(addmul_block(mem, dst, src, c),
                         dst + UNROLL, src + UNROLL, c, lim)
    ELSE [mem |-> mem, dst |-> dst, src |-> src]

\* faulty variant: the final components are left out
addmul_tail_skipped(mem, dst, src, c, lim) == mem

RECURSIVE addmul_tail(_, _, _, _, _)
\* for(; dst < lim; dst++, src++) *dst ^= mul_base[*src];
addmul_tail(mem, dst, src, c, lim) ==
  IF dst < lim
    THEN addmul_tail([mem EXCEPT ![dst] = Xor(mem[dst], gf_mul(c, mem[src]))],
                     dst + 1, src + 1, c, lim)
    ELSE mem

\* addmul(dst, src, c, sz) with dst and src offsets into mem
addmul(mem, dst, src, c, sz) ==
  IF c = 0 THEN mem
  ELSE LET lim == dst + sz - UNROLL + 1
           u   == addmul_unrolled(mem, dst, src, c, lim)
       IN  addmul_tail(u.mem, u.dst, u.src, c, lim + UNROLL - 1)

RECURSIVE addmul_k_from(_, _, _, _, _, _)
\* the loop of addmul_k from source i on: sources with cs[i] = 0 are skipped
addmul_k_from(dst, srcs, cs, size, k, i) ==
  IF i = k THEN dst
  ELSE IF cs[i] = 0 THEN addmul_k_from(dst, srcs, cs, size, k, i + 1)
  ELSE addmul_k_from([j \in 0..(size - 1) |-> Xor(dst[j], gf_mul(cs[i], srcs[i][j]))],
                     srcs, cs, size, k, i + 1)

\* addmul_k(dst, srcs, cs, size, k): dst ^= sum of cs[i] * srcs[i]
addmul_k(dst, srcs, cs, size, k) == addmul_k_from(dst, srcs, cs, size, k, 0)

(***************************************************************************)
(* Matrix engine.                                                          *)
(***************************************************************************)
RECURSIVE matmul_acc(_, _, _, _, _, _, _)
\* the inner loop of matmul: acc ^= gf_mul(*pa, *pb), pa++, pb += m
matmul_acc(a, b, pa, pb, m, i, acc) ==
  IF i = 0 THEN acc
  ELSE matmul_acc(a, b, pa + 1, pb + m, m, i - 1, Xor(acc, gf_mul(a[pa], b[pb])))

\* C = AB where A is n*k, B is k*m, C is n*m
matmul(a, b, n, k, m) ==
  [x \in 0..(n * m - 1) |->
     matmul_acc(a, b, (x \div m) * k, x % m, m, k, 0)]

\* std::swap(src[irow*k + i], src[icol*k + i]) for every i
swap_rows(src, k, irow, icol) ==
  [x \in DOMAIN src |->
     IF x \div k = irow THEN src[icol * k + (x % k)]
     ELSE IF x \div k = icol THEN src[irow * k + (x % k)]
     ELSE src[x]]

\* faulty variant: the column swaps are not undone
swap_cols_skipped(src, k, a, b) == src

\* std::swap(src[row*k + a], src[row*k + b]) for every row
swap_cols(src, k, a, b) ==
  [x \in DOMAIN src |->
     IF x % k = a THEN src[(x \div k) * k + b]
     ELSE IF x % k = b THEN src[(x \div k) * k + a]
     ELSE src[x]]

\* the pivot search of invert_mat: the diagonal first, then the first hit
\* of the row-major scan (a usable non-zero entry, or a column used twice)
find_pivot(src, ipiv, k, col) ==
  IF ipiv[col] # 1 /\ src[col * k + col] # 0
    THEN [irow |-> col, icol |-> col, err |-> FALSE]
    ELSE LET hits == {h \in (0..(k - 1)) \X (0..(k - 1)) :
                        /\ ipiv[h[1]] # 1
                        /\ \/ ipiv[h[2]] = 0 /\ src[h[1] * k + h[2]] # 0
                           \/ ipiv[h[2]] > 1}
         IN  IF hits = {}
               THEN [irow |-> -1, icol |-> -1, err |-> TRUE]
               ELSE LET h == CHOOSE h \in hits :
                               \A g \in hits : h[1] * k + h[2] <= g[1] * k + g[2]
                    IN  IF ipiv[h[2]] > 1
                          THEN [irow |-> -1, icol |-> -1, err |-> TRUE]
                          ELSE [irow |-> h[1], icol |-> h[2], err |-> FALSE]

\* c = GF_INVERSE[c]; pivot_row[icol] = 1; pivot_row[i] = gf_mul(c, pivot_row[i])
scale_pivot_row(src, k, icol, c) ==
  IF c = 1 THEN src
  ELSE [x \in DOMAIN src |->
          IF x \div k = icol
            THEN gf_mul(GF_INVERSE[c + 1], IF x % k = icol THEN 1 ELSE src[x])
            ELSE src[x]]

\* memcmp(pivot_row, id_row, k) == 0 with id_row the unit vector at icol
is_id_row(src, k, icol) ==
  \A i \in 0..(k - 1) : src[icol * k + i] = (IF i = icol THEN 1 ELSE 0)

RECURSIVE eliminate(_, _, _, _)
\* from row i on: c = p[icol]; p[icol] = 0; addmul(p, pivot_row, c, k)
eliminate(src, k, icol, i) ==
  IF i = k THEN src
  ELSE IF i = icol THEN eliminate(src, k, icol, i + 1)
  ELSE eliminate(addmul([src EXCEPT ![i * k + icol] = 0],
                        i * k, icol * k, src[i * k + icol], k),
                 k, icol, i + 1)

\* one pass of the column loop of invert_mat
invert_mat_col(st, k, col) ==
  LET piv == find_pivot(st.src, st.ipiv, k, col)
  IN  IF piv.err THEN [st EXCEPT !.err = TRUE]
      ELSE LET irow == piv.irow
               icol == piv.icol
               s1   == IF irow # icol THEN swap_rows(st.src, k, irow, icol)
                       ELSE st.src
               c    == s1[icol * k + icol]
               s2   == scale_pivot_row(s1, k, icol, c)
               s3   == IF is_id_row(s2, k, icol) THEN s2
                       ELSE eliminate(s2, k, icol, 0)
           IN  IF c = 0 THEN [st EXCEPT !.err = TRUE]
               ELSE [src   |-> s3,
                     ipiv  |-> [st.ipiv EXCEPT ![icol] = @ + 1],
                     indxr |-> [st.indxr EXCEPT ![col] = irow],
                     indxc |-> [st.indxc EXCEPT ![col] = icol],
                     err   |-> FALSE]

RECURSIVE invert_mat_cols(_, _, _)
\* for(int col = 0; col < k; col++), left by a throw
invert_mat_cols(st, k, col) ==
  IF col >= k \/ st.err THEN st
  ELSE invert_mat_cols(invert_mat_col(st, k, col), k, col + 1)

RECURSIVE undo_col_swaps(_, _, _, _, _)
\* for(int col = k-1; col >= 0; col--): swap columns indxr[col], indxc[col]
undo_col_swaps(src, indxr, indxc, k, col) ==
  IF col < 0 THEN src
  ELSE IF indxr[col] < 0 \/ indxr[col] >= k THEN
         undo_col_swaps(src, indxr, indxc, k, col - 1)
  ELSE IF indxc[col] < 0 \/ indxc[col] >= k THEN
         undo_col_swaps(src, indxr, indxc, k, col - 1)
  ELSE IF indxr[col] # indxc[col] THEN
         undo_col_swaps(swap_cols(src, k, indxr[col], indxc[col]),
                        indxr, indxc, k, col - 1)
  ELSE undo_col_swaps(src, indxr, indxc, k, col - 1)

\* invert_mat(src, k): err is TRUE when it throws std::invalid_argument
\* (SingularMatrix), and src is then what the matrix held at the throw
invert_mat(src, k) ==
  LET st == invert_mat_cols([src   |-> src,
                             ipiv  |-> [i \in 0..(k - 1) |-> 0],
                             indxr |-> [i \in 0..(k - 1) |-> 0],
                             indxc |-> [i \in 0..(k - 1) |-> 0],
                             err   |-> FALSE], k, 0)
  IN  IF st.err THEN [err |-> TRUE, src |-> st.src]
      ELSE [err |-> FALSE,
            src |-> undo_col_swaps(st.src, st.indxr, st.indxc, k, k - 1)]

RECURSIVE vdm_coeff_inner(_, _, _, _)
\* for(j = k-1 - (i-1); j < k-1; j++) c[j] ^= gf_mul(p_i, c[j+1])
vdm_coeff_inner(c, p_i, j, k) ==
  IF j < k - 1
    THEN vdm_coeff_inner([c EXCEPT ![j] = Xor(c[j], gf_mul(p_i, c[j + 1]))],
                         p_i, j + 1, k)
    ELSE c

RECURSIVE vdm_coeffs(_, _, _, _)
\* for(i = 1; i < k; i++): multiply P by (x - p_i)
vdm_coeffs(c, p, i, k) ==
  IF i < k
    THEN LET c1 == vdm_coeff_inner(c, p[i], k - 1 - (i - 1), k)
         IN  vdm_coeffs([c1 EXCEPT ![k - 1] = Xor(c1[k - 1], p[i])], p, i + 1, k)
    ELSE c

RECURSIVE vdm_divide(_, _, _, _, _)
\* for(i = k-2; i >= 0; i--): b[i] = c[i+1] ^ gf_mul(xx, b[i+1]);
\*                            t = gf_mul(xx, t) ^ b[i]
vdm_divide(c, b, t, xx, i) ==
  IF i < 0 THEN [b |-> b, t |-> t]
  ELSE LET bi == Xor(c[i + 1], gf_mul(xx, b[i + 1]))
       IN  vdm_divide(c, [b EXCEPT ![i] = bi], Xor(gf_mul(xx, t), bi), xx, i - 1)

\* invert_vdm(src, k): only the top k*k entries of src are touched
invert_vdm(src, k) ==
  IF k = 1 THEN src
  ELSE LET p  == [i \in 0..(k - 1) |-> src[i * k + 1]]
           c0 == [i \in 0..(k - 1) |-> IF i = k - 1 THEN p[0] ELSE 0]
           c  == vdm_coeffs(c0, p, 1, k)
           d  == [row \in 0..(k - 1) |->
                    vdm_divide(c, [i \in 0..(k - 1) |-> IF i = k - 1 THEN 1 ELSE 0],
                               1, p[row], k - 2)]
       IN  [x \in DOMAIN src |->
              IF x < k * k
                THEN gf_mul(GF_INVERSE[d[x % k].t + 1], d[x % k].b[x \div k])
                ELSE src[x]]

(***************************************************************************)
(* Codec: construction.                                                    *)
(***************************************************************************)
\* faulty variant: the exponent leaves out the row: every row is 1, a, a^2, ...
vdm_entry_no_row(row, col) == GF_EXP[(col % GF_ORDER) + 1]

\* p[col] = GF_EXP[(row*col) % 255] of the Vandermonde fill loop
vdm_entry(row, col) == GF_EXP[((row * col) % GF_ORDER) + 1]

\* The number of passes of a loop for(byte c = 0; c < limit; c++): c takes
\* the values 0..255 in turn and wraps, so the loop is left at the first of
\* them with !(c < limit); -1 when there is none and the loop never ends.
byte_loop_passes(limit) ==
  LET exits == {c \in 0..(GF_SIZE - 1) : ~(c < limit)}
  IN  IF exits = {} THEN -1
      ELSE CHOOSE c \in exits : \A d \in exits : c <= d

\* for(byte* p = &tmp_m[k], row = 0; row < n-1; row++, p += k) with its
\* inner loop over col < k: TRUE when the loop ends and every p[col] it
\* writes lies inside the n*k entries of tmp_m.  Called with n >= 1.
fill_loop_in_bounds(k, n) ==
  LET passes == byte_loop_passes(n - 1)
  IN  /\ passes >= 0
      /\ \A i \in 0..(passes - 1) : \A col \in 0..(k - 1) :
            k + i * k + col < n * k

\* tmp_m after tmp_m[0] = 1, tmp_m[1..k-1] = 0 and the fill loop
vandermonde_fill(k, n) ==
  [x \in 0..(n * k - 1) |->
     IF x < k THEN (IF x = 0 THEN 1 ELSE 0)
     ELSE vdm_entry((x \div k) - 1, x % k)]

\* for(byte* p = &enc_matrix[0], col = 0; col < k; col++, p += k+1) *p = 1;
\* TRUE when the loop ends and every *p it writes lies inside the n*k
\* entries of enc_matrix
identity_loop_in_bounds(k, n) ==
  LET passes == byte_loop_passes(k)
  IN  /\ passes >= 0
      /\ \A i \in 0..(passes - 1) : i * (k + 1) < n * k

\* the offsets the identity loop sets to 1, when it ends
identity_loop(k) == {i * (k + 1) : i \in 0..(byte_loop_passes(k) - 1)}

\* enc_matrix of a constructor that returns: the bottom n-k rows are
\* matmul(&tmp_m[k*k], &tmp_m[0], ..., n - k, k, k) after invert_vdm, the
\* top k*k entries are memset to 0 and then set by the identity loop
systematic_matrix(k, n) ==
  LET tmp_m  == invert_vdm(vandermonde_fill(k, n), k)
      bottom == matmul([x \in 0..((n - k) * k - 1) |-> tmp_m[k * k + x]],
                       tmp_m, n - k, k, k)
      ones   == identity_loop(k)
  IN  [x \in 0..(n * k - 1) |->
         IF x < k * k THEN (IF x \in ones THEN 1 ELSE 0)
         ELSE bottom[x - k * k]]

\* fec_code::fec_code(k_arg, n_arg): the outcomes of the constructor.
\* "InvalidParameters" is the std::invalid_argument it throws; a write
\* outside tmp_m or enc_matrix is undefined behaviour, whose outcomes are
\* "Crashed" and, when the loops still end, a return.
fec_code_outcomes(k_arg, n_arg) ==
  IF k_arg > MAX_N \/ n_arg > MAX_N THEN {"InvalidParameters"}
  ELSE IF k_arg > n_arg THEN {"InvalidParameters"}
  ELSE IF ~(0 < n_arg * k_arg) THEN {"Crashed", "Ready"}      \* tmp_m[0] = 1
  ELSE IF ~fill_loop_in_bounds(k_arg, n_arg) THEN {"Crashed"}
  ELSE IF ~identity_loop_in_bounds(k_arg, n_arg) THEN {"Crashed"}
  ELSE {"Ready"}

\* the object a constructor call leaves in state s
fec_code(k_arg, n_arg, s) ==
  [state      |-> s,
   k          |-> k_arg,
   n          |-> n_arg,
   enc_matrix |-> IF s = "Ready" /\ k_arg > 0
                    THEN systematic_matrix(k_arg, n_arg)
                    ELSE [x \in {} |-> 0]]

(***************************************************************************)
(* Codec: encode.                                                          *)
(***************************************************************************)
\* the row &enc_matrix[r*k] as an array of k coefficients
matrix_row(m, k, r) == [c \in 0..(k - 1) |-> m[r * k + c]]

\* fec_code::encode(src, fec, index, sz): the bytes left in fec
encode(c, src, idx, sz) ==
  IF idx >= c.n THEN [err |-> "InvalidIndex", fec |-> [x \in {} |-> 0]]
  ELSE IF idx < c.k THEN [err |-> "", fec |-> src[idx]]
  ELSE [err |-> "",
        fec |-> addmul_k([j \in 0..(sz - 1) |-> 0], src,
                         matrix_row(c.enc_matrix, c.k, idx), sz, c.k)]

(***************************************************************************)
(* Codec: decode helpers.                                                  *)
(***************************************************************************)
\* faulty variant: the test skips every entry at or past its own position
shuffle_skip_below(idx, i, k) == idx[i] >= k \/ idx[i] <= i

\* faulty variant: the test skips every entry at or before its own position
shuffle_skip_above(idx, i, k) == idx[i] >= k \/ idx[i] >= i

\* the test of shuffle that leaves entry i where it is:
\* index[i] >= k || index[i] == i
shuffle_skip(idx, i, k) == idx[i] >= k \/ idx[i] = i

\* the conflict test of shuffle: index[c] == c, position c is taken
shuffle_conflict(idx, c) == idx[c] = c

\* faulty variant: a[i] takes a[c], a[c] is left as it was
swap_entries_half(a, i, c) == [a EXCEPT ![i] = a[c]]

\* std::swap(a[i], a[c])
swap_entries(a, i, c) == [a EXCEPT ![i] = a[c], ![c] = a[i]]

\* the rows build_decode_matrix fills before it calls invert_mat
decode_rows(k, enc, idx) ==
  [x \in 0..(k * k - 1) |->
     IF idx[x \div k] < k
       THEN (IF x % k = x \div k THEN 1 ELSE 0)
       ELSE enc[idx[x \div k] * k + (x % k)]]

\* build_decode_matrix(k, n, enc_matrix, index): "BadIndex" is its
\* std::logic_error, "SingularMatrix" the std::invalid_argument of invert_mat
build_decode_matrix(k, n, enc, idx) ==
  IF \E i \in 0..(k - 1) : ~(idx[i] < k) /\ ~(idx[i] < n)
    THEN [err |-> "BadIndex", matrix |-> [x \in {} |-> 0]]
    ELSE LET r == invert_mat(decode_rows(k, enc, idx), k)
         IN  IF r.err THEN [err |-> "SingularMatrix", matrix |-> [x \in {} |-> 0]]
             ELSE [err |-> "", matrix |-> r.src]

(***************************************************************************)
(* State.                                                                  *)
(***************************************************************************)
VARIABLES
  codec,            \* the fec_code object: state, k, n, enc_matrix
  heap,             \* the byte buffers, by address
  pkt,              \* the caller's array of shard pointers (addresses)
  index,            \* the caller's array of shard indices
  call,             \* the decode call: pc, i (shuffle), row, sz, m_dec, new_pkt
  ghost,            \* history: the source block, the arrays as passed in,
                    \* the caller buffers written so far
  mat,              \* a matrix-engine run: the input and the matrices left in place
  vec,              \* an addmul run: the memory before and after the call
  fec_initialized,  \* the static flag of init_fec
  gf_mul_table,     \* the static product table while it is being built
  thread            \* per thread: its place in init_fec and what it read

vars == <<codec, heap, pkt, index, call, ghost, mat, vec,
          fec_initialized, gf_mul_table, thread>>

codecVars == <<codec, heap, pkt, index, call, ghost>>

tableVars == <<fec_initialized, gf_mul_table, thread>>

\* an array of no entries
EmptyArr == [x \in {} |-> 0]

\* the addresses of the caller's k shard buffers
caller_addrs(k) == 1..k

\* byte j of source shard i of the block drawn for seed
source_byte(seed, i, j) == (1 + 113 * seed + 29 * i + 71 * j) % GF_SIZE

\* a block of k source shards of sz bytes
source_block(seed, k, sz) ==
  [i \in 0..(k - 1) |-> [j \in 0..(sz - 1) |-> source_byte(seed, i, j)]]

\* the (k, n) the constructor is called with: the small ones and the
\* boundary of the accepted range
Params ==
  ((0..MaxK) \X (0..MaxN)) \cup
  {<<1, MAX_N>>, <<MAX_N, MAX_N>>, <<1, MAX_N + 1>>, <<MAX_N + 1, MAX_N + 1>>}

IdleCall == [pc |-> "idle", i |-> 0, row |-> 0, sz |-> 0,
             m_dec |-> EmptyArr, new_pkt |-> EmptyArr]

IdleGhost == [S |-> EmptyArr, index0 |-> EmptyArr, heap0 |-> EmptyArr,
              written |-> {}, swaps |-> 0]

CodecInit ==
  /\ codec = [state |-> "Constructing", k |-> 0, n |-> 0, enc_matrix |-> EmptyArr]
  /\ heap = EmptyArr
  /\ pkt = EmptyArr
  /\ index = EmptyArr
  /\ call = IdleCall
  /\ ghost = IdleGhost

MatIdle == mat = [k |-> 0, M |-> EmptyArr, isVdm |-> FALSE,
                  inverted |-> FALSE, err |-> FALSE, inv |-> EmptyArr,
                  vdone |-> FALSE, vinv |-> EmptyArr,
                  mdone |-> FALSE, prod |-> EmptyArr]

VecIdle == vec = [sz |-> 0, c |-> 0, dst |-> 0, src |-> 0, mem |-> EmptyArr,
                  done |-> FALSE, out |-> EmptyArr]

\* static storage is zero-initialised
TableInit ==
  /\ fec_initialized = FALSE
  /\ gf_mul_table = [e \in (0..(MulDim - 1)) \X (0..(MulDim - 1)) |-> 0]

ThreadsIdle == thread = [t \in {} |-> 0]

(***************************************************************************)
(* The codec: construct, then transmit a block and decode it.              *)
(***************************************************************************)
\* fec_code::fec_code(k_arg, n_arg)
Construct ==
  /\ codec.state = "Constructing"
  /\ \E p \in Params : \E s \in fec_code_outcomes(p[1], p[2]) :
       codec' = fec_code(p[1], p[2], s)
  /\ UNCHANGED <<heap, pkt, index, call, ghost>>

\* The caller encodes a source block at the k indices idx (fec_code::encode
\* for every idx[i] < n; an index encode rejects comes with a zero shard)
\* and calls fec_code::decode(pkt, index, sz) on the result.
Transmit ==
  /\ codec.state = "Ready"
  /\ codec.k >= 1
  /\ call.pc = "idle"
  /\ \E sz \in 1..MaxSz, seed \in 0..MaxSeed,
        idx \in [0..(codec.k - 1) -> 0..codec.n] :
       LET S == source_block(seed, codec.k, sz)
           shard(v) == IF encode(codec, S, v, sz).err = ""
                         THEN encode(codec, S, v, sz).fec
                         ELSE [j \in 0..(sz - 1) |-> 0]
           h == [a \in caller_addrs(codec.k) |-> shard(idx[a - 1])]
       IN  /\ heap' = h
           /\ pkt' = [i \in 0..(codec.k - 1) |-> i + 1]
           /\ index' = idx
           /\ call' = [IdleCall EXCEPT !.pc = "shuffle", !.sz = sz]
           /\ ghost' = [S |-> S, index0 |-> idx, heap0 |-> h,
                        written |-> {}, swaps |-> 0]
  /\ UNCHANGED codec

\* one pass of the loop of shuffle(pkt, index, k); its return 1 makes
\* decode throw std::logic_error (DuplicateIndex)
ShuffleStep ==
  /\ call.pc = "shuffle"
  /\ call.i < codec.k
  /\ LET i == call.i
         c == index[i]
     IN  IF shuffle_skip(index, i, codec.k)
           THEN /\ call' = [call EXCEPT !.i = i + 1]
                /\ UNCHANGED <<index, pkt, ghost>>
         ELSE IF shuffle_conflict(index, c)
           THEN /\ call' = [call EXCEPT !.pc = "DuplicateIndex"]
                /\ UNCHANGED <<index, pkt, ghost>>
         ELSE /\ index' = swap_entries(index, i, c)
              /\ pkt' = swap_entries(pkt, i, c)
              /\ ghost' = [ghost EXCEPT !.swaps = @ + 1]
              /\ UNCHANGED call
  /\ UNCHANGED <<codec, heap>>

\* shuffle returns 0; m_dec = build_decode_matrix(k, n, enc_matrix, index),
\* which throws on an index >= n and on a singular matrix
BuildDecodeMatrix ==
  /\ call.pc = "shuffle"
  /\ call.i >= codec.k
  /\ LET r == build_decode_matrix(codec.k, codec.n, codec.enc_matrix, index)
     IN  call' = IF r.err # ""
                   THEN [call EXCEPT !.pc = r.err]
                   ELSE [call EXCEPT !.pc = "reconstruct", !.row = 0,
                                     !.m_dec = r.matrix,
                                     !.new_pkt = [x \in 0..(codec.k - 1) |-> 0]]
  /\ UNCHANGED <<codec, heap, pkt, index, ghost>>

\* faulty variant: the row is computed in place, in the caller's buffer
new_bytes_in_place(h, p, row) == p[row]

\* new byte[sz]: an address that is no live buffer's
new_bytes(h, p, row) == CHOOSE a \in 1..(Cardinality(DOMAIN h) + 1) : a \notin DOMAIN h

\* the pc after row of a decode loop
next_pc(row, k, this, next) == IF row + 1 < k THEN this ELSE next

\* one pass of the first loop of decode: for a row with index[row] >= k,
\* new_pkt[row] = new byte[sz], zeroed, then addmul_k(new_pkt[row], pkt,
\* &m_dec[row*k], sz, k)
Reconstruct ==
  /\ call.pc = "reconstruct"
  /\ LET row == call.row
         a   == new_bytes(heap, pkt, row)
         out == addmul_k([j \in 0..(call.sz - 1) |-> 0],
                         [c \in 0..(codec.k - 1) |-> heap[pkt[c]]],
                         matrix_row(call.m_dec, codec.k, row), call.sz, codec.k)
     IN  IF index[row] >= codec.k
           THEN /\ heap' = [x \in DOMAIN heap \cup {a} |-> IF x = a THEN out ELSE heap[x]]
                /\ call' = [call EXCEPT !.row = (row + 1) % codec.k,
                                        !.pc = next_pc(row, codec.k, "reconstruct", "writeback"),
                                        !.new_pkt[row] = a]
                /\ ghost' = [ghost EXCEPT !.written =
                               @ \cup ({a} \cap caller_addrs(codec.k))]
           ELSE /\ call' = [call EXCEPT !.row = (row + 1) % codec.k,
                                        !.pc = next_pc(row, codec.k, "reconstruct", "writeback")]
                /\ UNCHANGED <<heap, ghost>>
  /\ UNCHANGED <<codec, pkt, index>>

\* one pass of the second loop of decode: for a row with index[row] >= k,
\* memcpy(pkt[row], new_pkt[row], sz) and delete[] new_pkt[row]
WriteBack ==
  /\ call.pc = "writeback"
  /\ LET row == call.row
     IN  IF index[row] >= codec.k
           THEN /\ heap' = [x \in (DOMAIN heap \ {call.new_pkt[row]}) \cup {pkt[row]} |->
                              IF x = pkt[row] THEN heap[call.new_pkt[row]] ELSE heap[x]]
                /\ ghost' = [ghost EXCEPT !.written = @ \cup {pkt[row]}]
           ELSE UNCHANGED <<heap, ghost>>
  /\ call' = [call EXCEPT !.row = (call.row + 1) % codec.k,
                          !.pc = next_pc(call.row, codec.k, "writeback", "done")]
  /\ UNCHANGED <<codec, pkt, index>>

\* decode has returned or thrown; the caller takes the result and the
\* codec is ready for the next block
Return ==
  /\ call.pc \in {"done", "DuplicateIndex", "BadIndex", "SingularMatrix"}
  /\ heap' = EmptyArr
  /\ pkt' = EmptyArr
  /\ index' = EmptyArr
  /\ call' = IdleCall
  /\ ghost' = IdleGhost
  /\ UNCHANGED codec

Init == CodecInit /\ MatIdle /\ VecIdle /\ TableInit /\ ThreadsIdle

Next ==
  \/ Construct /\ UNCHANGED <<mat, vec, tableVars>>
  \/ Transmit /\ UNCHANGED <<mat, vec, tableVars>>
  \/ ShuffleStep /\ UNCHANGED <<mat, vec, tableVars>>
  \/ BuildDecodeMatrix /\ UNCHANGED <<mat, vec, tableVars>>
  \/ Reconstruct /\ UNCHANGED <<mat, vec, tableVars>>
  \/ WriteBack /\ UNCHANGED <<mat, vec, tableVars>>
  \/ Return /\ UNCHANGED <<mat, vec, tableVars>>

Spec == Init /\ [][Next]_vars


(***************************************************************************)
(* The matrix engine on its own: a k*k matrix is drawn, and invert_mat,    *)
(* invert_vdm and matmul are applied to it.                                *)
(***************************************************************************)
RECURSIVE gf_pow(_, _)
\* p^j in GF(2^8), with p^0 = 1 for every p (0 included)
gf_pow(p, j) == IF j = 0 THEN 1 ELSE gf_mul(p, gf_pow(p, j - 1))

\* the Vandermonde matrix of the points pts[0..k-1]: V[i][j] = pts[i]^j
vandermonde(pts, k) == [x \in 0..(k * k - 1) |-> gf_pow(pts[x \div k], x % k)]

\* the points Vandermonde inputs are drawn from: 0, 1, a, a^2 as in the
\* codec's top block, and two more
VdmPoints == {0, 1, 2, 4, 3, 142}

\* the k*k Vandermonde matrices on pairwise-distinct points
VdmInputs(k) ==
  {vandermonde(pts, k) : pts \in {q \in [0..(k - 1) -> VdmPoints] :
                                    \A i, j \in 0..(k - 1) : i # j => q[i] # q[j]}}

\* rows of length k: those over {0,1} with at most two 1s, and the
\* multiples a * (1, p, p^2, ...) for a in {1, 3}, p in {2, 142}
RowPool(k) ==
  {r \in [0..(k - 1) -> {0, 1}] : Cardinality({i \in 0..(k - 1) : r[i] = 1}) <= 2}
  \cup {[j \in 0..(k - 1) |-> gf_mul(a, gf_pow(p, j))] : a \in {1, 3}, p \in {2, 142}}

\* the k*k matrices whose rows are drawn from RowPool(k)
PoolInputs(k) ==
  {[x \in 0..(k * k - 1) |-> rows[x \div k][x % k]] : rows \in [0..(k - 1) -> RowPool(k)]}

\* the state before a run on input M
mat_input(k, M, v) ==
  [k |-> k, M |-> M, isVdm |-> v,
   inverted |-> FALSE, err |-> FALSE, inv |-> M,
   vdone |-> FALSE, vinv |-> M,
   mdone |-> FALSE, prod |-> EmptyArr]

MatInit ==
  \E k \in 1..MaxDim :
     \/ \E M \in PoolInputs(k) : mat = mat_input(k, M, FALSE)
     \/ \E M \in VdmInputs(k) : mat = mat_input(k, M, TRUE)

\* invert_mat(M, k), in place
ApplyInvertMat ==
  /\ ~mat.inverted
  /\ LET r == invert_mat(mat.M, mat.k)
     IN  mat' = [mat EXCEPT !.inverted = TRUE, !.err = r.err, !.inv = r.src]

\* invert_vdm(M, k), in place, on a Vandermonde input
ApplyInvertVdm ==
  /\ mat.isVdm
  /\ ~mat.vdone
  /\ mat' = [mat EXCEPT !.vdone = TRUE, !.vinv = invert_vdm(mat.M, mat.k)]

\* matmul(M, M', prod, k, k, k) with M' the matrix invert_mat left
ApplyMatmul ==
  /\ mat.inverted
  /\ ~mat.err
  /\ ~mat.mdone
  /\ mat' = [mat EXCEPT !.mdone = TRUE,
                        !.prod = matmul(mat.M, mat.inv, mat.k, mat.k, mat.k)]

InitMat == CodecInit /\ MatInit /\ VecIdle /\ TableInit /\ ThreadsIdle

NextMat ==
  \/ ApplyInvertMat /\ UNCHANGED <<codecVars, vec, tableVars>>
  \/ ApplyInvertVdm /\ UNCHANGED <<codecVars, vec, tableVars>>
  \/ ApplyMatmul /\ UNCHANGED <<codecVars, vec, tableVars>>

SpecMat == InitMat /\ [][NextMat]_vars

(***************************************************************************)
(* First use of the product table by concurrent constructors.  Each thread *)
(* runs init_fec() and then reads the table, as invert_vdm and matmul do.  *)
(* The table is modelled on its top-left MulDim x MulDim corner; a step is *)
(* one load or store.                                                      *)
(***************************************************************************)
Threads == 1..NumThreads

Corner == (0..(MulDim - 1)) \X (0..(MulDim - 1))

ThreadsInit ==
  thread = [t \in Threads |-> [pc |-> "check", i |-> 0, j |-> 0, reads |-> {}]]

\* if(!fec_initialized): the load of the flag
CheckFlag(t) ==
  /\ thread[t].pc = "check"
  /\ thread' = [thread EXCEPT ![t].pc = IF fec_initialized THEN "use" ELSE "set"]
  /\ UNCHANGED <<fec_initialized, gf_mul_table>>

\* fec_initialized = true, before init_mul_table() is called
SetFlag(t) ==
  /\ thread[t].pc = "set"
  /\ fec_initialized' = TRUE
  /\ thread' = [thread EXCEPT ![t].pc = "fill", ![t].i = 0, ![t].j = 0]
  /\ UNCHANGED gf_mul_table

\* the place after (i, j) of the first loop of init_mul_table
fill_next(th) ==
  IF th.j + 1 < MulDim THEN [th EXCEPT !.j = th.j + 1]
  ELSE IF th.i + 1 < MulDim THEN [th EXCEPT !.i = th.i + 1, !.j = 0]
  ELSE [th EXCEPT !.pc = "zero", !.i = 0, !.j = 0]

\* gf_mul_table[i][j] = GF_EXP[(GF_LOG[i] + GF_LOG[j]) % 255]
FillEntry(t) ==
  /\ thread[t].pc = "fill"
  /\ gf_mul_table' = [gf_mul_table EXCEPT ![<<thread[t].i, thread[t].j>>] =
                        mul_first_loop(thread[t].i, thread[t].j)]
  /\ thread' = [thread EXCEPT ![t] = fill_next(thread[t])]
  /\ UNCHANGED fec_initialized

\* gf_mul_table[0][i] = gf_mul_table[i][0] = 0
ZeroEntry(t) ==
  /\ thread[t].pc = "zero"
  /\ gf_mul_table' = [gf_mul_table EXCEPT ![<<0, thread[t].i>>] = 0,
                                          ![<<thread[t].i, 0>>] = 0]
  /\ thread' = [thread EXCEPT ![t] =
                  IF thread[t].i + 1 < MulDim
                    THEN [thread[t] EXCEPT !.i = thread[t].i + 1]
                    ELSE [thread[t] EXCEPT !.pc = "use", !.i = 0]]
  /\ UNCHANGED fec_initialized

\* gf_mul(a, b) in the constructor after init_fec() has returned
ReadEntry(t) ==
  /\ thread[t].pc = "use"
  /\ \E e \in Corner :
       thread' = [thread EXCEPT ![t].pc = "done",
                                ![t].reads = @ \cup {<<e[1], e[2], gf_mul_table[e]>>}]
  /\ UNCHANGED <<fec_initialized, gf_mul_table>>

InitTable == CodecInit /\ MatIdle /\ VecIdle /\ TableInit /\ ThreadsInit

NextTable ==
  \E t \in Threads :
     \/ CheckFlag(t) /\ UNCHANGED <<codecVars, mat, vec>>
     \/ SetFlag(t) /\ UNCHANGED <<codecVars, mat, vec>>
     \/ FillEntry(t) /\ UNCHANGED <<codecVars, mat, vec>>
     \/ ZeroEntry(t) /\ UNCHANGED <<codecVars, mat, vec>>
     \/ ReadEntry(t) /\ UNCHANGED <<codecVars, mat, vec>>

SpecTable == InitTable /\ [][NextTable]_vars

(***************************************************************************)
(* The vector kernel on its own: addmul(dst, src, c, sz) is called on two  *)
(* disjoint ranges of sz bytes of one memory, with bytes around them that  *)
(* the call has no business with.                                          *)
(***************************************************************************)
\* the bytes before dst, between dst and src, and after src
Margin == 2

\* the coefficients addmul is called with: 0, 1 and two others
AddmulCoeffs == {0, 1, 2, 142}

\* byte x of the memory drawn for seed
mem_byte(seed, x) == (7 + 101 * seed + 37 * x) % GF_SIZE

\* the state before the call addmul(&mem[dst], &mem[src], c, sz)
vec_input(sz, c, seed) ==
  [sz |-> sz, c |-> c, dst |-> Margin, src |-> 2 * Margin + sz,
   mem |-> [x \in 0..(3 * Margin + 2 * sz - 1) |-> mem_byte(seed, x)],
   done |-> FALSE, out |-> EmptyArr]

VecInit ==
  \E sz \in 0..MaxLen, c \in AddmulCoeffs, seed \in 0..MaxSeed :
     vec = vec_input(sz, c, seed)

\* addmul(dst, src, c, sz)
ApplyAddmul ==
  /\ ~vec.done
  /\ vec' = [vec EXCEPT !.done = TRUE,
                        !.out = addmul(vec.mem, vec.dst, vec.src, vec.c, vec.sz)]

InitVec == CodecInit /\ MatIdle /\ VecInit /\ TableInit /\ ThreadsIdle

NextVec == ApplyAddmul /\ UNCHANGED <<codecVars, mat, tableVars>>

SpecVec == InitVec /\ [][NextVec]_vars

(***************************************************************************)
(* shuffle on its own: decode is entered on a constructed codec with an    *)
(* arbitrary index array, and runs up to the statement after shuffle.      *)
(***************************************************************************)
\* the state at the entry of decode(pkt, index, 1) with index = idx
decode_entry(idx, k) ==
  /\ pkt = [i \in 0..(k - 1) |-> i + 1]
  /\ heap = [a \in caller_addrs(k) |-> [j \in 0..0 |-> 0]]
  /\ index = idx
  /\ call = [IdleCall EXCEPT !.pc = "shuffle", !.sz = 1]
  /\ ghost = [S |-> EmptyArr, index0 |-> idx, heap0 |-> heap,
              written |-> {}, swaps |-> 0]

ShuffleInit ==
  \E k \in 1..MaxK : \E n \in k..MaxN : \E idx \in [0..(k - 1) -> 0..n] :
     /\ codec = fec_code(k, n, "Ready")
     /\ decode_entry(idx, k)

InitShuffle == ShuffleInit /\ MatIdle /\ VecIdle /\ TableInit /\ ThreadsIdle

NextShuffle ==
  \/ ShuffleStep /\ UNCHANGED <<mat, vec, tableVars>>
  \/ BuildDecodeMatrix /\ UNCHANGED <<mat, vec, tableVars>>

\* the loop of shuffle is sequential code: a call that is in the loop
\* takes its next pass
SpecShuffle ==
  /\ InitShuffle
  /\ [][NextShuffle]_vars
  /\ WF_vars(ShuffleStep /\ UNCHANGED <<mat, vec, tableVars>>)

(***************************************************************************)
(* Properties.                                                             *)
(***************************************************************************)
\* the parameters the constructor is specified to accept
ValidParams(k, n) == 1 <= k /\ k <= n /\ n <= MAX_N

\* the k*k identity matrix
Identity(k) == [x \in 0..(k * k - 1) |-> IF x \div k = x % k THEN 1 ELSE 0]

\* k pairwise-distinct indices, all in [0, n)
DistinctInRange(idx, k, n) ==
  /\ \A i \in 0..(k - 1) : idx[i] < n
  /\ \A i, j \in 0..(k - 1) : i # j => idx[i] # idx[j]

\* the same value v < k at two different positions
DuplicateSource(idx, k) ==
  \E i, j \in 0..(k - 1) : i # j /\ idx[i] = idx[j] /\ idx[i] < k

\* a decode call is in progress or has just ended on a codec that was given
\* a correct block
CorrectInput ==
  /\ call.pc # "idle"
  /\ ValidParams(codec.k, codec.n)
  /\ DistinctInRange(ghost.index0, codec.k, codec.n)

\* the positions that hold a parity shard
ParityRows == {i \in 0..(codec.k - 1) : index[i] >= codec.k}

RECURSIVE gf_det(_, _)
\* the determinant of the k*k matrix M over GF(2^8), by expansion along
\* row 0 (in characteristic 2 the signs vanish)
gf_det(M, k) ==
  IF k = 1 THEN M[0]
  ELSE LET minor(c) == [x \in 0..((k - 1) * (k - 1) - 1) |->
                          LET r == x \div (k - 1)
                              j == x % (k - 1)
                          IN  M[(r + 1) * k + (IF j < c THEN j ELSE j + 1)]]
           term(c) == gf_mul(M[c], gf_det(minor(c), k - 1))
           sum[c \in 0..k] == IF c = 0 THEN 0 ELSE Xor(sum[c - 1], term(c - 1))
       IN  sum[k]

\* C1 Round trip: for every valid (k,n), every block of k source shards and
\* every k pairwise-distinct indices in [0,n), in any order, a codec is
\* there to encode the shards at those indices, decode succeeds on them and
\* leaves the content of source shard i in pkt[i] for every i.
C1_RoundTrip ==
  /\ (codec.state # "Constructing" /\ ValidParams(codec.k, codec.n)) =>
        codec.state = "Ready"
  /\ (CorrectInput /\ call.pc \in {"DuplicateIndex", "BadIndex", "SingularMatrix"}) =>
        FALSE
  /\ (CorrectInput /\ call.pc = "done") =>
        \A i \in 0..(codec.k - 1) : heap[pkt[i]] = ghost.S[i]

\* (C1, for the record) on every codec the constructor does return, the
\* round trip holds: decode of a correct block ends in "done" with the
\* source shards in place.
RoundTripOnReadyCodec ==
  /\ (CorrectInput /\ call.pc \in {"DuplicateIndex", "BadIndex", "SingularMatrix"}) =>
        FALSE
  /\ (CorrectInput /\ call.pc = "done") =>
        \A i \in 0..(codec.k - 1) : heap[pkt[i]] = ghost.S[i]

\* C2 Validation: the constructor fails with InvalidParameters for every
\* (k,n) that violates 1 <= k, k <= n or n <= 256 (k = 0 included), and
\* does not fail so for any (k,n) that satisfies all three.
C2_Validation ==
  codec.state # "Constructing" =>
     /\ ~ValidParams(codec.k, codec.n) => codec.state = "InvalidParameters"
     /\ ValidParams(codec.k, codec.n) => codec.state # "InvalidParameters"

\* C3 Upper bound: for k = 256, n = 256 the constructor ends with every
\* loop inside the matrices it indexes, and the encoding matrix is the
\* 256 x 256 identity.
C3_UpperBound ==
  (codec.state # "Constructing" /\ codec.k = MAX_N /\ codec.n = MAX_N) =>
     /\ codec.state = "Ready"
     /\ codec.enc_matrix = Identity(MAX_N)

\* C4 Concurrent first use: every entry of gf_mul_table a thread reads
\* after its init_fec() holds the final value a*b at the time of the read.
C4_ReadersSeeFinalTable ==
  \A t \in DOMAIN thread : \A r \in thread[t].reads :
     r[3] = init_mul_table(r[1], r[2])

\* C5 No SingularMatrix under correct input: for valid (k,n) and k
\* pairwise-distinct indices in [0,n), invert_mat does not throw, and the
\* matrix decode holds is the inverse of the decode matrix (unit row e_i
\* where index[i] < k, row index[i] of the encoding matrix otherwise).
C5_DecodeMatrixInvertible ==
  CorrectInput =>
     /\ call.pc # "SingularMatrix"
     /\ call.pc \in {"reconstruct", "writeback", "done"} =>
           matmul(decode_rows(codec.k, codec.enc_matrix, index), call.m_dec,
                  codec.k, codec.k, codec.k) = Identity(codec.k)

\* C5 witness: a correct block with two parity shards whose decode matrix
\* has been inverted by elimination
C5_Witness ==
  /\ CorrectInput
  /\ call.pc = "reconstruct"
  /\ Cardinality(ParityRows) >= 2
  /\ call.m_dec # Identity(codec.k)

\* C6 DuplicateIndex: when the index array passed in holds the same value
\* v < k at two positions, decode fails with DuplicateIndex, raised by
\* shuffle: no decode matrix has been built and no shard buffer written.
C6_DuplicateIndex ==
  (call.pc \notin {"idle", "shuffle"} /\ DuplicateSource(ghost.index0, codec.k)) =>
     /\ call.pc = "DuplicateIndex"
     /\ call.m_dec = EmptyArr
     /\ ghost.written = {}
     /\ heap = ghost.heap0

\* C6 witness: the duplicate is met after shuffle has already swapped
C6_Witness ==
  /\ call.pc = "DuplicateIndex"
  /\ DuplicateSource(ghost.index0, codec.k)
  /\ ghost.swaps >= 1
  /\ codec.k >= 3

\* C7 as stated: after a successful decode index[i] = i at every position,
\* those that held a parity shard included.
C7_IndexIsIdentity ==
  call.pc = "done" => \A i \in 0..(codec.k - 1) : index[i] = i

\* C7 amended: after a successful decode the index array is a permutation
\* of the array passed in, with index[i] = i at every position that holds
\* a received original, and the parity index (>= k) it came with at every
\* position that held a parity shard.
C7_IndexAfterDecode ==
  call.pc = "done" =>
     /\ \A v \in 0..codec.n :
           Cardinality({i \in 0..(codec.k - 1) : index[i] = v}) =
           Cardinality({i \in 0..(codec.k - 1) : ghost.index0[i] = v})
     /\ \A i \in 0..(codec.k - 1) : index[i] = i \/ index[i] >= codec.k
     /\ \A i \in 0..(codec.k - 1) :
           ghost.index0[i] < codec.k => index[ghost.index0[i]] = ghost.index0[i]

\* C7 witness: a successful decode that moved an original and rebuilt a
\* shard at a position that still carries its parity index
C7_Witness ==
  /\ call.pc = "done"
  /\ CorrectInput
  /\ ghost.swaps >= 1
  /\ \E i \in 0..(codec.k - 1) :
        index[i] >= codec.k /\ heap[pkt[i]] = ghost.S[i] /\ i \in DOMAIN ghost.S

\* C8 invert_mat: it throws exactly on the singular matrices, and on every
\* other it leaves M' with matmul(M, M') = I.
C8_InvertMat ==
  /\ mat.inverted => (mat.err <=> gf_det(mat.M, mat.k) = 0)
  /\ mat.mdone => mat.prod = Identity(mat.k)

\* C8 witness: an inverted 3 x 3 matrix with a zero at (0,0), so that the
\* pivot of column 0 is found off the diagonal, with a unit row and with a
\* row of entries other than 0 and 1
C8_Witness ==
  /\ mat.mdone
  /\ mat.k = 3
  /\ mat.M[0] = 0
  /\ mat.M[3] = 1 /\ mat.M[4] = 0 /\ mat.M[5] = 0
  /\ mat.M[8] > 1
  /\ mat.prod = Identity(3)

\* C9 invert_vdm and invert_mat agree: on a Vandermonde matrix on
\* pairwise-distinct points both leave the same matrix.
C9_VdmAgrees ==
  (mat.isVdm /\ mat.inverted /\ mat.vdone) =>
     /\ ~mat.err
     /\ mat.vinv = mat.inv

\* (C9, for the record) the two agree on the inputs the constructor passes:
\* a Vandermonde matrix whose first point is 0, that is, whose row 0 is
\* (1, 0, ..., 0).  The coefficient loop of invert_vdm starts one entry
\* late, which leaves out the products with the first point.
VdmAgreesOnFirstPointZero ==
  (mat.isVdm /\ mat.inverted /\ mat.vdone /\ (mat.k = 1 \/ mat.M[1] = 0)) =>
     /\ ~mat.err
     /\ mat.vinv = mat.inv

\* C10 Scratch before write-back: while decode reconstructs, no caller
\* buffer has been written and every caller buffer holds what was received;
\* the scratch buffers are none of the pkt[j]; when the first buffer is
\* written every reconstruction is there; only rows with index[row] >= k
\* are written.
C10_ScratchBeforeWriteBack ==
  /\ call.pc \in {"shuffle", "reconstruct", "DuplicateIndex", "BadIndex",
                   "SingularMatrix"} =>
        /\ ghost.written = {}
        /\ \A a \in caller_addrs(codec.k) : heap[a] = ghost.heap0[a]
  /\ call.pc \in {"reconstruct", "writeback"} =>
        \A r \in 0..(codec.k - 1) :
           call.new_pkt[r] # 0 => \A j \in 0..(codec.k - 1) : call.new_pkt[r] # pkt[j]
  /\ call.pc = "writeback" =>
        \A r \in ParityRows : r >= call.row => call.new_pkt[r] \in DOMAIN heap
  /\ call.pc \in {"writeback", "done"} =>
        /\ ghost.written \subseteq {pkt[r] : r \in ParityRows}
        /\ \A r \in (0..(codec.k - 1)) \ ParityRows : heap[pkt[r]] = ghost.heap0[pkt[r]]

\* C10 witness: the first of two reconstructed rows has been copied back,
\* the second is still in its scratch buffer
C10_Witness ==
  /\ call.pc = "writeback"
  /\ Cardinality(ParityRows) >= 2
  /\ ghost.written # {}
  /\ \E r \in ParityRows : r >= call.row

\* C11 addmul: the call leaves dst[i] ^ gf_mul_table[c][src[i]] at the
\* positions i in [0, sz) of dst and every other byte as it was, for every
\* sz >= 0 (below 16, a multiple of 16, with a remainder); with c = 0 the
\* memory is unchanged.
C11_Addmul ==
  vec.done =>
     /\ DOMAIN vec.out = DOMAIN vec.mem
     /\ \A x \in DOMAIN vec.mem :
           vec.out[x] =
             IF vec.dst <= x /\ x < vec.dst + vec.sz
               THEN Xor(vec.mem[x],
                        init_mul_table(vec.c, vec.mem[vec.src + (x - vec.dst)]))
               ELSE vec.mem[x]
     /\ vec.c = 0 => vec.out = vec.mem

\* C11 witness: a call with c # 0 on a length that takes passes of the
\* unrolled loop and of the tail loop, and that changed dst
C11_Witness ==
  /\ vec.done
  /\ vec.c > 1
  /\ vec.sz > UNROLL /\ vec.sz % UNROLL # 0
  /\ vec.out[vec.dst + vec.sz - 1] # vec.mem[vec.dst + vec.sz - 1]
  /\ vec.out[vec.dst] # vec.mem[vec.dst]

\* the number of positions j with idx[j] = j
FixedPositions(idx) == Cardinality({j \in DOMAIN idx : idx[j] = j})

\* the (pkt[i], index[i]) pairs
Pairs(p, idx) == {<<p[i], idx[i]>> : i \in DOMAIN idx}

\* the loop of shuffle has been left: by return 1, or by its condition
\* i < k failing (return 0)
ShuffleLeft == call.pc # "shuffle" \/ call.i >= codec.k

\* C12 shuffle terminates: on every index array of k values (duplicates
\* and values >= n included) the loop of shuffle is left; each swap
\* strictly increases the number of positions j with index[j] = j and at
\* most k swaps occur; it ends with the duplicate error, position index[i]
\* being taken, or with index[i] = i or index[i] >= k at every position;
\* either way the (pkt[i], index[i]) pairs are a permutation of the pairs
\* passed in.
C12_ShuffleTerminates ==
  /\ (call.pc = "shuffle") ~> ShuffleLeft
  /\ [][(call.pc = "shuffle" /\ index' # index) =>
          FixedPositions(index') > FixedPositions(index)]_vars
  /\ [](call.pc # "idle" =>
          /\ ghost.swaps <= codec.k
          /\ Pairs(pkt, index) = Pairs([i \in 0..(codec.k - 1) |-> i + 1], ghost.index0)
          /\ Cardinality(Pairs(pkt, index)) = codec.k)
  /\ [](call.pc = "DuplicateIndex" =>
          \E i \in 0..(codec.k - 1) :
             /\ index[i] < codec.k /\ index[i] # i
             /\ index[index[i]] = index[i])
  /\ []((call.pc \notin {"idle", "DuplicateIndex"} /\ ShuffleLeft) =>
          \A i \in 0..(codec.k - 1) : index[i] = i \/ index[i] >= codec.k)

\* C12 witness: shuffle has returned 0 after two swaps on an array that
\* holds a value >= n
C12_Witness ==
  /\ call.pc = "BadIndex"
  /\ ghost.swaps >= 2
  /\ FixedPositions(index) > FixedPositions(ghost.index0) + 1

=============================================================================
